---- MODULE Spec2Model ----
(***************************************************************************)
(* Model of four components of the vortex columnar array engine:           *)
(*   - MonoIoMessageReader (vortex-ipc/src/codecs/message_reader/monoio.rs)*)
(*   - StructArray         (enc/src/array/struct_/mod.rs)                  *)
(*   - FoRArray            (encodings/fastlanes/src/for/mod.rs)            *)
(*   - RoaringIntArray     (vortex-roaring/src/integer/compute.rs)         *)
(* Each component has its own specification (SpecReader, SpecStruct,       *)
(* SpecFoR, SpecRoaring) over the shared variable tuple.                   *)
(***************************************************************************)
EXTENDS Integers, Sequences, FiniteSets, TLC

VARIABLES
    \* ---- MonoIoMessageReader ----
    items,          \* ghost: the frames the byte stream was built from
    stream,         \* the bytes behind `read`
    pos,            \* number of bytes `read` has consumed
    message,        \* self.message
    prev_message,   \* self.prev_message
    finished,       \* self.finished
    rstate,         \* "new" | "ready" (try_new returned Ok) | "failed" (Err)
    trace,          \* ghost: the calls made on the reader, with their results
    peeked,         \* result of peek(), when it was the last call
    \* ---- StructArray ----
    sinput,         \* the names and fields handed to StructArray::new
    sarray,         \* the StructArray in hand, once built
    sstate,         \* "input" | "built" | "asserted" (new panicked)
    slast,          \* ghost: the last call made on the struct and its outcome
    iter,           \* the iterator returned by iter_arrow, if any
    batches,        \* ghost: the batches the iterator has emitted
    \* ---- FoRArray ----
    finput,         \* the child, reference and shift handed to FoRArray::try_new
    farray,         \* the FoRArray, once built
    fcanonical,     \* the result of into_canonical
    \* ---- RoaringIntArray ----
    rvalues,        \* ghost: the sorted distinct values the bitmap was built from
    rarray,         \* the RoaringIntArray
    rscalar         \* the last scalar_at call and its result

readerVars == <<items, stream, pos, message, prev_message, finished, rstate,
                trace, peeked>>

structVars == <<sinput, sarray, sstate, slast, iter, batches>>

forVars == <<finput, farray, fcanonical>>

roaringVars == <<rvalues, rarray, rscalar>>

vars == <<readerVars, structVars, forVars, roaringVars>>

----------------------------------------------------------------------------
(* Bounds *)

MaxItems == 3       \* frames in a generated stream
MaxOps == 3         \* calls made on one reader
MaxFields == 2      \* fields of a struct
MaxFieldLen == 3    \* rows of a field
MaxChunk == 3       \* natural chunk size of a field's canonical sequence
Width == 3          \* bits of the integer type a FoRArray decodes to
MaxForLen == 2      \* elements of a FoRArray
MaxCard == 3        \* values in a bitmap

(* Program constants *)

\* u32::MAX.  A u32 is held as its two 16-bit halves, since the model
\* checker's integers are 32-bit signed.
U32Max == [lo |-> 65535, hi |-> 65535]

----------------------------------------------------------------------------
(* Generic helpers *)

Min(a, b) == IF a < b THEN a ELSE b

RECURSIVE SumSeq(_)
SumSeq(s) == IF s = <<>> THEN 0 ELSE Head(s) + SumSeq(Tail(s))

RECURSIVE Flatten(_)
Flatten(ss) == IF ss = <<>> THEN <<>> ELSE Head(ss) \o Flatten(Tail(ss))

SeqsUpTo(S, n) == UNION { [1..k -> S] : k \in 0..n }

----------------------------------------------------------------------------
(* Wire framing *)

\* u32::from_le_bytes
FromLeBytes(b) == [lo |-> b[1] + 256 * b[2], hi |-> b[3] + 256 * b[4]]

\* u32::to_le_bytes, used by the writer side of the framing
ToLeBytes(n) == << n.lo % 256, n.lo \div 256, n.hi % 256, n.hi \div 256 >>

\* A length below 2^16 as a u32.
U32(n) == [lo |-> n, hi |-> 0]

\* A header payload is abstracted as a tag byte followed by the table of the
\* sizes of the body buffers that follow the header on the wire.
Header(sizes) == <<1>> \o sizes

\* The buffer-length table of a header payload.
BufferSizes(p) == Tail(p)

\* flatbuffers::root::<Message>: the verifier accepts a payload only if it is
\* non-empty and carries the Message tag.
root(bytes) == Len(bytes) >= 1 /\ bytes[1] = 1

\* Bytes of one frame of the stream.
FrameBytes(it) ==
    CASE it.k = "hdr"  -> ToLeBytes(U32(Len(it.p))) \o it.p
      [] it.k = "body" -> it.b
      [] it.k = "end"  -> ToLeBytes(U32Max)

EndItem == [k |-> "end"]

HdrItem(p) == [k |-> "hdr", p |-> p]

BodyItem(b) == [k |-> "body", b |-> b]

\* A header without buffers, a header declaring two buffers, and a payload
\* the verifier rejects.
Payloads == { Header(<<>>), Header(<<4, 1>>), <<0>> }

\* The body of Header(<<4, 1>>); its bytes also read as a frame of length 1.
Bodies == { <<1, 0, 0, 0, 1>> }

ItemSet == { HdrItem(p) : p \in Payloads } \cup { BodyItem(b) : b \in Bodies }
           \cup { EndItem }

RECURSIVE StreamOf(_)
StreamOf(its) ==
    IF its = <<>> THEN <<>> ELSE FrameBytes(Head(its)) \o StreamOf(Tail(its))

\* Byte offset of the end of the j-th frame.
Offset(j) == Len(StreamOf(SubSeq(items, 1, j)))

----------------------------------------------------------------------------
(* MonoIoMessageReader *)

\* read_exact over a byte slice: fills n bytes or fails with UnexpectedEof
\* after draining the slice.
read_exact_into(p, n) ==
    IF p + n <= Len(stream)
    THEN [ok |-> TRUE, pos |-> p + n, data |-> SubSeq(stream, p + 1, p + n)]
    ELSE [ok |-> FALSE, pos |-> Len(stream), data |-> <<>>]

\* read_exact_into(BytesMut::with_capacity(len as usize)): a length of 2^16 or
\* more exceeds every stream of the model, so the read drains the source.
read_exact_len(p, len) ==
    IF len.hi > 0
    THEN [ok |-> FALSE, pos |-> Len(stream), data |-> <<>>]
    ELSE read_exact_into(p, len.lo)

\* load_next_message on a reader whose source is at p and whose message
\* buffer holds msg.  res is "true"/"false" for Ok(true)/Ok(false), "err" for
\* Err.
load_next_message(p, msg) ==
    LET len_buf == read_exact_into(p, 4) IN
    IF ~len_buf.ok
    THEN [res |-> "err", pos |-> len_buf.pos, message |-> msg]
    ELSE LET len == FromLeBytes(len_buf.data) IN
         IF len = U32Max
         THEN [res |-> "false", pos |-> len_buf.pos, message |-> msg]
         ELSE LET m == read_exact_len(len_buf.pos, len) IN
              IF ~m.ok
              THEN [res |-> "err", pos |-> m.pos, message |-> msg]
              ELSE IF ~root(m.data)
              THEN [res |-> "err", pos |-> m.pos, message |-> msg]
              ELSE [res |-> "true", pos |-> m.pos, message |-> m.data]

None == [kind |-> "none"]

Err == [kind |-> "err"]

Panic == [kind |-> "panic"]

\* A parsed view (root_unchecked) over bytes.
MessageView(bytes) == [kind |-> "message", bytes |-> bytes]

\* An owned buffer (Buffer::from(.. .freeze())) holding bytes.
RawBuffer(bytes) == [kind |-> "buffer", bytes |-> bytes]

Filled(bufs) == [kind |-> "buffers", bufs |-> bufs]

Reader == [pos |-> pos, message |-> message, prev_message |-> prev_message,
           finished |-> finished]

peek(r) == IF r.finished THEN None ELSE MessageView(r.message)

\* next() handing out the freshly loaded message instead of the previous one.
next_returns_loaded(r) ==
    IF r.finished
    THEN [pos |-> r.pos, message |-> r.message,
          prev_message |-> r.prev_message, finished |-> r.finished,
          ret |-> Panic]
    ELSE LET prev == r.message
             l == load_next_message(r.pos, <<>>) IN
         IF l.res = "err"
         THEN [pos |-> l.pos, message |-> l.message, prev_message |-> prev,
               finished |-> r.finished, ret |-> Err]
         ELSE [pos |-> l.pos, message |-> l.message, prev_message |-> prev,
               finished |-> (l.res = "false"), ret |-> MessageView(l.message)]

\* next() without the finished check.
next_unchecked(r) ==
    LET prev == r.message
        l == load_next_message(r.pos, <<>>) IN
    IF l.res = "err"
    THEN [pos |-> l.pos, message |-> l.message, prev_message |-> prev,
          finished |-> r.finished, ret |-> Err]
    ELSE [pos |-> l.pos, message |-> l.message, prev_message |-> prev,
          finished |-> (l.res = "false"), ret |-> MessageView(prev)]

\* next(): the reader after the call and the value returned.
next(r) ==
    IF r.finished
    THEN [pos |-> r.pos, message |-> r.message,
          prev_message |-> r.prev_message, finished |-> r.finished,
          ret |-> Panic]
    ELSE LET prev == r.message          \* self.message.split()
             l == load_next_message(r.pos, <<>>) IN
         IF l.res = "err"
         THEN [pos |-> l.pos, message |-> l.message, prev_message |-> prev,
               finished |-> r.finished, ret |-> Err]
         ELSE [pos |-> l.pos, message |-> l.message, prev_message |-> prev,
               finished |-> (l.res = "false"), ret |-> MessageView(prev)]

\* next_raw() that does not record the sentinel.
next_raw_never_finishes(r) ==
    IF r.finished
    THEN [pos |-> r.pos, message |-> r.message,
          prev_message |-> r.prev_message, finished |-> r.finished,
          ret |-> Panic]
    ELSE LET prev == r.message
             l == load_next_message(r.pos, <<>>) IN
         IF l.res = "err"
         THEN [pos |-> l.pos, message |-> l.message, prev_message |-> prev,
               finished |-> r.finished, ret |-> Err]
         ELSE [pos |-> l.pos, message |-> l.message, prev_message |-> prev,
               finished |-> r.finished, ret |-> RawBuffer(prev)]

\* next_raw(): the reader after the call and the value returned.
next_raw(r) ==
    IF r.finished
    THEN [pos |-> r.pos, message |-> r.message,
          prev_message |-> r.prev_message, finished |-> r.finished,
          ret |-> Panic]
    ELSE LET prev == r.message
             l == load_next_message(r.pos, <<>>) IN
         IF l.res = "err"
         THEN [pos |-> l.pos, message |-> l.message, prev_message |-> prev,
               finished |-> r.finished, ret |-> Err]
         ELSE [pos |-> l.pos, message |-> l.message, prev_message |-> prev,
               finished |-> (l.res = "false"), ret |-> RawBuffer(prev)]

\* The bytes of a stream range cut into consecutive buffers of the given sizes.
RECURSIVE Cut(_, _)
Cut(bytes, sizes) ==
    IF sizes = <<>> THEN <<>>
    ELSE <<SubSeq(bytes, 1, Head(sizes))>>
         \o Cut(SubSeq(bytes, Head(sizes) + 1, Len(bytes)), Tail(sizes))

\* read_into that fills the buffers last to first.
read_into_reversed(r, sizes) ==
    LET v == read_exact_into(r.pos, SumSeq(sizes))
        rev(q) == [i \in 1..Len(q) |-> q[Len(q) + 1 - i]] IN
    [pos |-> v.pos, message |-> r.message, prev_message |-> r.prev_message,
     finished |-> r.finished,
     ret |-> IF v.ok THEN Filled(rev(Cut(v.data, rev(sizes)))) ELSE Err]

\* read_into(buffers): one vectored exact read that fills the buffers in order.
read_into(r, sizes) ==
    LET v == read_exact_into(r.pos, SumSeq(sizes)) IN
    [pos |-> v.pos, message |-> r.message, prev_message |-> r.prev_message,
     finished |-> r.finished,
     ret |-> IF v.ok THEN Filled(Cut(v.data, sizes)) ELSE Err]

SizeChoices == { <<4, 1>>, <<2>> }

\* Record of one call: the reader before it, the call, the reader after it.
Call(op, sizes, before, after) ==
    [op |-> op, sizes |-> sizes, at |-> before.pos, pend |-> before.message,
     fin |-> before.finished, ret |-> after.ret, pos |-> after.pos,
     message |-> after.message, finished |-> after.finished]

Apply(op, sizes, after) ==
    /\ pos' = after.pos
    /\ message' = after.message
    /\ prev_message' = after.prev_message
    /\ finished' = after.finished
    /\ trace' = Append(trace, Call(op, sizes, Reader, after))
    /\ peeked' = None
    /\ UNCHANGED <<items, stream, rstate>>
    /\ UNCHANGED <<structVars, forVars, roaringVars>>

NoCall == [op |-> "none"]

\* No struct is under construction.
IdleStruct ==
    /\ sinput = [names |-> <<>>, fields |-> <<>>]
    /\ sarray = None
    /\ sstate = "idle"
    /\ slast = NoCall
    /\ iter = None
    /\ batches = <<>>

\* No FoRArray is under construction.
IdleFoR ==
    /\ finput = None
    /\ farray = None
    /\ fcanonical = None

\* No RoaringIntArray exists.
IdleRoaring ==
    /\ rvalues = <<>>
    /\ rarray = None
    /\ rscalar = None

\* No stream is attached to a reader.
IdleReader ==
    /\ pos = 0
    /\ message = <<>>
    /\ prev_message = <<>>
    /\ finished = FALSE
    /\ rstate = "new"
    /\ trace = <<>>
    /\ peeked = None

InitReader ==
    /\ IdleStruct /\ IdleFoR /\ IdleRoaring
    /\ items \in SeqsUpTo(ItemSet, MaxItems)
    /\ stream = StreamOf(items)
    /\ pos = 0
    /\ message = <<>>
    /\ prev_message = <<>>
    /\ finished = FALSE
    /\ rstate = "new"
    /\ trace = <<>>
    /\ peeked = None

\* try_new: build the reader and perform the first load.
TryNew ==
    /\ rstate = "new"
    /\ LET l == load_next_message(pos, message) IN
       /\ pos' = l.pos
       /\ message' = l.message
       /\ rstate' = IF l.res = "err" THEN "failed" ELSE "ready"
    /\ UNCHANGED <<items, stream, prev_message, finished, trace, peeked>>
    /\ UNCHANGED <<structVars, forVars, roaringVars>>

Peek ==
    /\ rstate = "ready"
    /\ peeked' = peek(Reader)
    /\ UNCHANGED <<items, stream, pos, message, prev_message, finished,
                   rstate, trace>>
    /\ UNCHANGED <<structVars, forVars, roaringVars>>

Next ==
    /\ rstate = "ready"
    /\ Len(trace) < MaxOps
    /\ Apply("next", <<>>, next(Reader))

NextRaw ==
    /\ rstate = "ready"
    /\ Len(trace) < MaxOps
    /\ Apply("next_raw", <<>>, next_raw(Reader))

ReadInto ==
    /\ rstate = "ready"
    /\ Len(trace) < MaxOps
    /\ \E sizes \in SizeChoices : Apply("read_into", sizes, read_into(Reader, sizes))

NextReader == TryNew \/ Peek \/ Next \/ NextRaw \/ ReadInto

SpecReader == InitReader /\ [][NextReader]_vars

----------------------------------------------------------------------------
(* StructArray *)

\* A field is an Array: its rows, and the chunk size at which its own
\* iter_arrow cuts them.
FieldArray(n, c) == [data |-> [i \in 1..n |-> i], chunk |-> c]

FieldSet == { FieldArray(n, c) : n \in 0..MaxFieldLen, c \in 1..MaxChunk }

Names(n) == [i \in 1..n |-> i]

\* Array::len of a field.
field_len(f) == Len(f.data)

\* Itertools::all_equal
all_equal(xs) == \A i, j \in 1..Len(xs) : xs[i] = xs[j]

\* StructArray::new with the length assertion removed.
new_unasserted(names, fields) ==
    [kind |-> "ok", array |-> [names |-> names, fields |-> fields]]

\* StructArray::new: asserts that the fields have one length.
new(names, fields) ==
    IF all_equal([i \in 1..Len(fields) |-> field_len(fields[i])])
    THEN [kind |-> "ok", array |-> [names |-> names, fields |-> fields]]
    ELSE Panic

\* StructArray::len
len(s) == IF s.fields = <<>> THEN 0 ELSE field_len(s.fields[1])

\* ArrayEncoding::check_slice_bounds: start <= stop <= len.
check_slice_bounds(s, start, stop) == ~(start > stop \/ stop > len(s))

\* Array::slice of a field: the rows [start, stop).
field_slice(f, start, stop) ==
    IF start > stop \/ stop > field_len(f)
    THEN Err
    ELSE [kind |-> "ok",
          array |-> [data |-> SubSeq(f.data, start + 1, stop),
                     chunk |-> f.chunk]]

\* StructArray::slice
slice(s, start, stop) ==
    IF ~check_slice_bounds(s, start, stop) THEN Err
    ELSE LET fs == [i \in 1..Len(s.fields) |->
                        field_slice(s.fields[i], start, stop)] IN
         IF \E i \in 1..Len(fs) : fs[i] = Err THEN Err
         ELSE new(s.names, [i \in 1..Len(fs) |-> fs[i].array])

\* Array::iter_arrow of a field: its rows in chunks of its natural size.
RECURSIVE field_iter_arrow(_)
field_iter_arrow(f) ==
    IF f.data = <<>> THEN <<>>
    ELSE LET n == Min(f.chunk, Len(f.data)) IN
         <<SubSeq(f.data, 1, n)>>
         \o field_iter_arrow([data |-> SubSeq(f.data, n + 1, Len(f.data)),
                              chunk |-> f.chunk])

\* AlignedArrowArrayIterator::new: one source sequence and one buffered
\* remainder per field.
aligned_new(sources) ==
    [queues |-> sources, rem |-> [i \in 1..Len(sources) |-> <<>>]]

\* The slice field i has available: its remainder, else its next chunk.
available(it, i) ==
    IF it.rem[i] # <<>> THEN it.rem[i]
    ELSE IF it.queues[i] # <<>> THEN Head(it.queues[i])
    ELSE <<>>

MinLen(xs) == CHOOSE m \in { Len(xs[i]) : i \in 1..Len(xs) } :
                  \A i \in 1..Len(xs) : m <= Len(xs[i])

\* AlignedArrowArrayIterator::next that hands the available slices on uncut.
aligned_next_uncut(it) ==
    LET n == Len(it.queues)
        av == [i \in 1..n |-> available(it, i)] IN
    IF \A i \in 1..n : av[i] = <<>> THEN [kind |-> "none", it |-> it]
    ELSE IF \E i \in 1..n : av[i] = <<>> THEN [kind |-> "panic", it |-> it]
    ELSE [kind |-> "some",
          items |-> av,
          avail |-> [i \in 1..n |-> Len(av[i])],
          it |-> [queues |-> [i \in 1..n |->
                                 IF it.rem[i] = <<>> THEN Tail(it.queues[i])
                                 ELSE it.queues[i]],
                  rem |-> [i \in 1..n |-> <<>>]]]

\* AlignedArrowArrayIterator::next: cut every field's available slice to the
\* shortest one and keep the rest for the next step.
aligned_next(it) ==
    LET n == Len(it.queues)
        av == [i \in 1..n |-> available(it, i)] IN
    IF \A i \in 1..n : av[i] = <<>> THEN [kind |-> "none", it |-> it]
    ELSE IF \E i \in 1..n : av[i] = <<>> THEN [kind |-> "panic", it |-> it]
    ELSE LET m == MinLen(av) IN
         [kind |-> "some",
          items |-> [i \in 1..n |-> SubSeq(av[i], 1, m)],
          avail |-> [i \in 1..n |-> Len(av[i])],
          it |-> [queues |-> [i \in 1..n |->
                                 IF it.rem[i] = <<>> THEN Tail(it.queues[i])
                                 ELSE it.queues[i]],
                  rem |-> [i \in 1..n |-> SubSeq(av[i], m + 1, Len(av[i]))]]]

\* StructArray::iter_arrow: the aligned iterator over the fields' sequences.
iter_arrow(s) ==
    aligned_new([i \in 1..Len(s.fields) |-> field_iter_arrow(s.fields[i])])

\* The closure of iter_arrow: ArrowStructArray::new(fields, items, None).
struct_batch(s, r) == [names |-> s.names, cols |-> r.items, nulls |-> None,
                       avail |-> r.avail]

InitStruct ==
    /\ IdleReader /\ IdleFoR /\ IdleRoaring
    /\ items = <<>> /\ stream = <<>>
    /\ \E fs \in SeqsUpTo(FieldSet, MaxFields) :
           sinput = [names |-> Names(Len(fs)), fields |-> fs]
    /\ sarray = None
    /\ sstate = "input"
    /\ slast = NoCall
    /\ iter = None
    /\ batches = <<>>

New ==
    /\ sstate = "input"
    /\ LET r == new(sinput.names, sinput.fields) IN
       /\ sstate' = IF r.kind = "ok" THEN "built" ELSE "asserted"
       /\ sarray' = IF r.kind = "ok" THEN r.array ELSE None
       /\ slast' = [op |-> "new", kind |-> r.kind]
    /\ UNCHANGED <<sinput, iter, batches>>
    /\ UNCHANGED <<readerVars, forVars, roaringVars>>

Slice ==
    /\ sstate = "built"
    /\ \E start, stop \in 0..(MaxFieldLen + 1) :
         LET r == slice(sarray, start, stop) IN
         /\ slast' = [op |-> "slice", kind |-> r.kind, start |-> start,
                      stop |-> stop, parent |-> sarray]
         /\ sarray' = IF r.kind = "ok" THEN r.array ELSE sarray
         /\ sstate' = IF r.kind = "panic" THEN "asserted" ELSE sstate
    /\ iter' = None
    /\ batches' = <<>>
    /\ UNCHANGED sinput
    /\ UNCHANGED <<readerVars, forVars, roaringVars>>

IterArrow ==
    /\ sstate = "built"
    /\ iter = None
    /\ iter' = [kind |-> "iter", state |-> iter_arrow(sarray), done |-> FALSE]
    /\ batches' = <<>>
    /\ slast' = [op |-> "iter_arrow"]
    /\ UNCHANGED <<sinput, sarray, sstate>>
    /\ UNCHANGED <<readerVars, forVars, roaringVars>>

IterNext ==
    /\ sstate = "built"
    /\ iter # None
    /\ ~iter.done
    /\ LET r == aligned_next(iter.state) IN
       /\ iter' = [kind |-> "iter", state |-> r.it, done |-> r.kind # "some"]
       /\ batches' = IF r.kind = "some"
                     THEN Append(batches, struct_batch(sarray, r))
                     ELSE batches
       /\ slast' = [op |-> "iter_next", kind |-> r.kind]
    /\ UNCHANGED <<sinput, sarray, sstate>>
    /\ UNCHANGED <<readerVars, forVars, roaringVars>>

NextStruct == New \/ Slice \/ IterArrow \/ IterNext

SpecStruct == InitStruct /\ [][NextStruct]_vars

----------------------------------------------------------------------------
(* FoRArray *)

RECURSIVE Pow2(_)
Pow2(n) == IF n = 0 THEN 1 ELSE 2 * Pow2(n - 1)

\* The values of the integer type of Width bits.
IntRange(signed) ==
    IF signed THEN (0 - Pow2(Width - 1))..(Pow2(Width - 1) - 1)
    ELSE 0..(Pow2(Width) - 1)

\* Two's-complement wrap of x into the type.
Wrap(signed, x) ==
    IF signed
    THEN ((x + Pow2(Width - 1)) % Pow2(Width)) - Pow2(Width - 1)
    ELSE x % Pow2(Width)

\* A non-null Scalar of the integer type.
Scalar(v) == [kind |-> "scalar", value |-> v]

\* The null Scalar.
NullScalar == [kind |-> "null"]

\* FoRArray::try_new: rejects a null reference.
for_try_new(child, reference, shift, signed) ==
    IF reference = NullScalar THEN Err
    ELSE [kind |-> "ok",
          array |-> [signed |-> signed, child |-> child,
                     reference |-> reference, shift |-> shift]]

\* FoRArray::encoded: the child, typed as the unsigned counterpart of a
\* signed logical type.
encoded(a) == [signed |-> FALSE, values |-> a.child]

\* PrimitiveArray::reinterpret_cast: the same bit patterns read as ptype.
reinterpret_cast(p, signed) ==
    [signed |-> signed,
     values |-> [i \in 1..Len(p.values) |-> Wrap(signed, p.values[i])]]

\* decompress: (value << shift).wrapping_add(reference) in the target type,
\* for shift amounts below the width of the type.
decompress(a) ==
    LET e == reinterpret_cast(encoded(a), a.signed) IN
    [signed |-> a.signed,
     values |-> [i \in 1..Len(e.values) |->
                    Wrap(a.signed,
                         Wrap(a.signed, e.values[i] * Pow2(a.shift))
                             + a.reference.value)]]

\* into_canonical that canonicalises the child without decoding it.
into_canonical_undecoded(a) == reinterpret_cast(encoded(a), a.signed)

\* FoRArray::into_canonical
into_canonical(a) == decompress(a)

InitFoR ==
    /\ IdleReader /\ items = <<>> /\ stream = <<>>
    /\ IdleStruct /\ IdleRoaring
    /\ \E signed \in BOOLEAN :
       \E child \in SeqsUpTo(0..(Pow2(Width) - 1), MaxForLen) :
       \E reference \in { Scalar(v) : v \in IntRange(signed) }
                           \cup {NullScalar} :
       \E shift \in 0..(Width - 1) :
           finput = [signed |-> signed, child |-> child,
                     reference |-> reference, shift |-> shift]
    /\ farray = None
    /\ fcanonical = None

ForTryNew ==
    /\ finput # None /\ farray = None
    /\ farray' = for_try_new(finput.child, finput.reference, finput.shift,
                             finput.signed)
    /\ UNCHANGED <<finput, fcanonical>>
    /\ UNCHANGED <<readerVars, structVars, roaringVars>>

IntoCanonical ==
    /\ farray # None /\ farray.kind = "ok"
    /\ fcanonical = None
    /\ fcanonical' = into_canonical(farray.array)
    /\ UNCHANGED <<finput, farray>>
    /\ UNCHANGED <<readerVars, structVars, roaringVars>>

NextFoR == ForTryNew \/ IntoCanonical

SpecFoR == InitFoR /\ [][NextFoR]_vars

----------------------------------------------------------------------------
(* RoaringIntArray *)

\* Bitmap values of the model: the boundaries of the unsigned widths.
BitmapValues == {0, 1, 255, 256, 65535, 65536, 2147483647}

PTypes == {"U8", "U16", "U32", "U64"}

\* Strictly increasing sequences over S of at most n elements.
SortedSeqs(S, n) ==
    { q \in SeqsUpTo(S, n) : \A i \in 1..(Len(q) - 1) : q[i] < q[i + 1] }

\* Bitmap::from_iter
bitmap_of(values) == { values[i] : i \in 1..Len(values) }

\* Bitmap::select: the value with exactly rank smaller values, if any.
select(bitmap, rank) ==
    IF rank < Cardinality(bitmap)
    THEN [kind |-> "some",
          value |-> CHOOSE x \in bitmap :
                        Cardinality({ y \in bitmap : y < x }) = rank]
    ELSE None

\* RoaringIntArray::len: the cardinality of the bitmap.
roaring_len(a) == Cardinality(a.bitmap)

\* scalar_at that narrows every value to u8.
scalar_at_as_u8(a, index) ==
    LET r == select(a.bitmap, index) IN
    IF r = None THEN Panic
    ELSE [kind |-> "scalar", ptype |-> a.ptype, value |-> r.value % 256]

\* ScalarAtFn::scalar_at
scalar_at(a, index) ==
    LET r == select(a.bitmap, index) IN
    IF r = None THEN Panic      \* unwrap
    ELSE LET bitmap_value == r.value IN
         CASE a.ptype = "U8"  -> [kind |-> "scalar", ptype |-> "U8",
                                  value |-> bitmap_value % 256]
           [] a.ptype = "U16" -> [kind |-> "scalar", ptype |-> "U16",
                                  value |-> bitmap_value % 65536]
           [] a.ptype = "U32" -> [kind |-> "scalar", ptype |-> "U32",
                                  value |-> bitmap_value]
           [] a.ptype = "U64" -> [kind |-> "scalar", ptype |-> "U64",
                                  value |-> bitmap_value]
           [] OTHER -> Panic    \* unreachable!

InitRoaring ==
    /\ IdleReader /\ items = <<>> /\ stream = <<>>
    /\ IdleStruct /\ IdleFoR
    /\ rvalues \in SortedSeqs(BitmapValues, MaxCard)
    /\ \E ptype \in PTypes :
           rarray = [bitmap |-> bitmap_of(rvalues), ptype |-> ptype]
    /\ rscalar = None

ScalarAt ==
    /\ rarray # None
    /\ \E index \in 0..MaxCard :
           rscalar' = [index |-> index, ret |-> scalar_at(rarray, index)]
    /\ UNCHANGED <<rvalues, rarray>>
    /\ UNCHANGED <<readerVars, structVars, forVars>>

NextRoaring == ScalarAt

SpecRoaring == InitRoaring /\ [][NextRoaring]_vars

----------------------------------------------------------------------------
(* Properties of FoRArray *)

----------------------------------------------------------------------------
(* Properties of RoaringIntArray *)

\* Every value is representable in the declared ptype.
Fits(values, ptype) ==
    \A i \in 1..Len(values) :
        /\ ptype = "U8" => values[i] <= 255
        /\ ptype = "U16" => values[i] <= 65535

\* C9: over a bitmap built from sorted distinct values that fit the ptype,
\* len() is their number and scalar_at(i) is the i-th of them, whatever
\* calls came before.
RankSelect ==
    (rarray # None /\ Fits(rvalues, rarray.ptype)) =>
        /\ roaring_len(rarray) = Len(rvalues)
        /\ (rscalar # None /\ rscalar.index < Len(rvalues)) =>
             rscalar.ret = [kind |-> "scalar", ptype |-> rarray.ptype,
                            value |-> rvalues[rscalar.index + 1]]

RankSelectWitness ==
    /\ rarray # None /\ rarray.ptype = "U16"
    /\ rvalues = <<1, 256, 65535>>
    /\ rscalar # None /\ rscalar.index = 2
    /\ rscalar.ret.value = 65535

----------------------------------------------------------------------------
(* Properties of StructArray *)

\* Rows of field i emitted so far.
Emitted(i) == Flatten([b \in 1..Len(batches) |-> batches[b].cols[i]])

\* Field i of the iterator has nothing left.
Exhausted(i) == iter.state.rem[i] = <<>> /\ iter.state.queues[i] = <<>>

\* C6: every batch of iter_arrow holds the same number of rows of every
\* field, that number being the shortest slice available at that step, the
\* rest of longer slices being carried over; the batch lengths sum to len()
\* and the iteration ends exactly when all fields are exhausted together.
AlignedIteration ==
    (sstate = "built" /\ iter # None) =>
        LET n == Len(sarray.fields) IN
        /\ \A b \in 1..Len(batches) :
             /\ Len(batches[b].cols) = n
             /\ \A i \in 1..n :
                  /\ \A j \in 1..n :
                       Len(batches[b].cols[i]) <= batches[b].avail[j]
                  /\ \E j \in 1..n :
                       Len(batches[b].cols[i]) = batches[b].avail[j]
        /\ \A i \in 1..n :
             Emitted(i) \o iter.state.rem[i] \o Flatten(iter.state.queues[i])
                 = sarray.fields[i].data
        /\ aligned_next(iter.state).kind # "panic"
        /\ (aligned_next(iter.state).kind = "none")
               <=> (\A i \in 1..n : Exhausted(i))
        /\ iter.done =>
             /\ \A i \in 1..n : Exhausted(i)
             /\ SumSeq([b \in 1..Len(batches) |-> Len(batches[b].cols[1])])
                    = len(sarray)

AlignedIterationWitness ==
    /\ sstate = "built" /\ iter # None /\ iter.done
    /\ Len(sarray.fields) = 2
    /\ sarray.fields[1].chunk = 2 /\ sarray.fields[2].chunk = 3
    /\ [b \in 1..Len(batches) |-> Len(batches[b].cols[1])] = <<2, 1>>
    /\ batches[1].avail = <<2, 3>> /\ batches[2].avail = <<1, 1>>

\* C7: a built StructArray has fields of one common length, which is len()
\* (0 without fields); new over fields of differing lengths fails and builds
\* nothing; a successful slice(start, stop) has length stop - start.
StructLength ==
    /\ sstate = "built" =>
         /\ \A i \in 1..Len(sarray.fields) :
                field_len(sarray.fields[i]) = len(sarray)
         /\ sarray.fields = <<>> => len(sarray) = 0
    /\ sstate \in {"built", "asserted"} =>
         /\ (sstate = "built") <=>
                (\A i, j \in 1..Len(sinput.fields) :
                    Len(sinput.fields[i].data) = Len(sinput.fields[j].data))
         /\ sstate = "asserted" => sarray = None
    /\ (slast.op = "slice" /\ slast.kind = "ok") =>
         /\ len(sarray) = slast.stop - slast.start
         /\ \A i \in 1..Len(sarray.fields) :
                sarray.fields[i].data
                    = SubSeq(slast.parent.fields[i].data, slast.start + 1,
                             slast.stop)

StructLengthWitness ==
    /\ sstate = "built"
    /\ slast.op = "slice" /\ slast.kind = "ok"
    /\ slast.parent # sinput
    /\ Len(sarray.fields) = 2
    /\ slast.start = 1 /\ slast.stop = 2
    /\ sarray.fields[1].data = <<3>>

----------------------------------------------------------------------------
(* Properties of the message reader *)

\* The frame j of the stream is a well-formed header.
IsHeader(j) == j \in 1..Len(items) /\ items[j].k = "hdr" /\ root(items[j].p)

\* The frame j is a well-formed header immediately followed by its body
\* buffers.
HeaderWithBody(j) ==
    /\ IsHeader(j)
    /\ j + 1 <= Len(items)
    /\ items[j + 1].k = "body"
    /\ Len(items[j + 1].b) = SumSeq(BufferSizes(items[j].p))

\* The stream is n >= 1 well-formed headers followed by the sentinel.
HeadersThenEnd ==
    /\ Len(items) >= 2
    /\ items[Len(items)] = EndItem
    /\ \A j \in 1..(Len(items) - 1) : IsHeader(j)

OnlyNext == \A i \in 1..Len(trace) : trace[i].op = "next"

\* C1: a reader constructed over a stream holding only the end-of-stream
\* sentinel is finished when try_new returns, and its first peek() is none.
SentinelOnlyIsFinished ==
    (rstate = "ready" /\ stream = ToLeBytes(U32Max) /\ trace = <<>>)
        => (finished /\ peek(Reader) = None)

\* C2: over headers H1..Hn followed by the sentinel, successive next() calls
\* return H1, ..., Hn in order; before the k-th call peek() is Hk and after
\* the n-th call peek() is none.
StreamingEnumeration ==
    (rstate = "ready" /\ HeadersThenEnd /\ OnlyNext) =>
        LET n == Len(items) - 1
            k == Len(trace) IN
        /\ \A i \in 1..Min(k, n) : trace[i].ret = MessageView(items[i].p)
        /\ k < n => peek(Reader) = MessageView(items[k + 1].p)
        /\ k >= n => peek(Reader) = None

StreamingEnumerationWitness ==
    /\ rstate = "ready" /\ HeadersThenEnd /\ OnlyNext
    /\ Len(items) = 3 /\ items[1] # items[2]
    /\ Len(trace) = 2 /\ trace[2].ret = MessageView(items[2].p)
    /\ finished

\* C3 as stated: read_into called right after next() has consumed a header H
\* that is followed by its body returns the body bytes of H, and leaves the
\* source at the first byte after that body.
ReadIntoAfterNext ==
    \A i \in 1..(Len(trace) - 1) : \A j \in 1..Len(items) :
        ( /\ HeaderWithBody(j)
          /\ trace[i].op = "next"
          /\ trace[i].pend = items[j].p /\ trace[i].at = Offset(j)
          /\ trace[i].ret = MessageView(items[j].p)
          /\ trace[i + 1].op = "read_into"
          /\ trace[i + 1].sizes = BufferSizes(items[j].p) )
        => /\ trace[i + 1].ret
                = Filled(Cut(items[j + 1].b, BufferSizes(items[j].p)))
           /\ trace[i + 1].pos = Offset(j + 1)

\* The call i is a read_into made while the header of frame j, which is
\* followed by its body, is the pending header.
ReadsBodyOfPending(i, j) ==
    /\ HeaderWithBody(j)
    /\ trace[i].op = "read_into"
    /\ ~trace[i].fin
    /\ trace[i].pend = items[j].p /\ trace[i].at = Offset(j)
    /\ trace[i].sizes = BufferSizes(items[j].p)

\* C3 amended: read_into called while H is the pending header (before next()
\* consumes it) returns the body bytes of H in buffer order and leaves the
\* source at the first byte after the body; the next() that follows returns
\* H and loads the header that starts there.
ReadIntoWhilePending ==
    \A i \in 1..Len(trace) : \A j \in 1..Len(items) :
        ReadsBodyOfPending(i, j) =>
            /\ trace[i].ret
                 = Filled(Cut(items[j + 1].b, BufferSizes(items[j].p)))
            /\ trace[i].pos = Offset(j + 1)
            /\ (i < Len(trace) /\ trace[i + 1].op = "next") =>
                 /\ trace[i + 1].at = Offset(j + 1)
                 /\ IsHeader(j + 2) =>
                      /\ trace[i + 1].ret = MessageView(items[j].p)
                      /\ trace[i + 1].message = items[j + 2].p
                      /\ trace[i + 1].pos = Offset(j + 2)
                 /\ (j + 2 <= Len(items) /\ items[j + 2] = EndItem) =>
                      /\ trace[i + 1].ret = MessageView(items[j].p)
                      /\ trace[i + 1].finished

ReadIntoWhilePendingWitness ==
    /\ Len(trace) >= 2 /\ Len(items) = 3
    /\ ReadsBodyOfPending(1, 1)
    /\ Len(trace[1].sizes) = 2
    /\ trace[1].ret = Filled(<< <<1, 0, 0, 0>>, <<1>> >>)
    /\ trace[2].op = "next" /\ IsHeader(3)
    /\ message = items[3].p

\* C4: whenever the reader is not finished, the pending header that peek()
\* exposes is a non-empty payload that passed validation.
PendingIsValidated ==
    (rstate = "ready" /\ ~finished) => root(peek(Reader).bytes)

\* C5: next_raw() and next() leave the reader in the same state and hand out
\* the same payload bytes.
NextRawMatchesNext ==
    rstate = "ready" =>
        LET a == next(Reader)
            b == next_raw(Reader) IN
        /\ a.pos = b.pos
        /\ a.message = b.message
        /\ a.prev_message = b.prev_message
        /\ a.finished = b.finished
        /\ \/ a.ret \in {Err, Panic} /\ b.ret = a.ret
           \/ /\ a.ret.kind = "message" /\ b.ret.kind = "buffer"
              /\ b.ret.bytes = a.ret.bytes

NextRawMatchesNextWitness ==
    /\ rstate = "ready" /\ Len(trace) = 2
    /\ trace[1].op = "next" /\ trace[1].ret.kind = "message"
    /\ trace[2].op = "next_raw" /\ trace[2].ret.kind = "buffer"
    /\ trace[2].ret.bytes # trace[1].ret.bytes
    /\ finished

\* The step made the call op on the reader.
Called(ops) ==
    /\ Len(trace') = Len(trace) + 1
    /\ trace'[Len(trace')].op \in ops

\* C10: a finished reader stays finished; next() and next_raw() on it panic
\* without reading a byte, peek() is none, and read_into changes neither the
\* finished flag nor the pending header.
FinishedIsTerminal ==
    [][ /\ finished =>
            /\ finished'
            /\ peek(Reader') = None
            /\ Called({"next", "next_raw"}) =>
                 (trace'[Len(trace')].ret = Panic /\ pos' = pos)
        /\ Called({"read_into"}) =>
             (finished' = finished /\ message' = message) ]_vars

FinishedIsTerminalWitness ==
    /\ finished /\ Len(trace) = 3
    /\ trace[2].fin /\ trace[2].op \in {"next", "next_raw"}
    /\ trace[2].ret = Panic
    /\ trace[3].op = "read_into" /\ trace[3].ret.kind = "buffers"

====
